---- MODULE Spec2Model ----
(***************************************************************************)
(* Russian internal passport renewal calculator (src/app.py).              *)
(*                                                                         *)
(* The program is three date-rule functions (classify_passport_stage,      *)
(* compute_next_change, validate_inputs) over the helper safe_add_years,   *)
(* and a two-field form whose button runs them.  Dates are calendar dates  *)
(* of the proleptic Gregorian calendar, as datetime.date.                  *)
(***************************************************************************)
EXTENDS Integers, Sequences, FiniteSets

VARIABLES birth, issue, today, out, shown, calls

vars == <<birth, issue, today, out, shown, calls>>

----------------------------------------------------------------------------
(* datetime.date, datetime.timedelta                                       *)

date(y, m, d) == [year |-> y, month |-> m, day |-> d]

\* Python's None, and a present optional value
None == <<>>

Some(x) == <<x>>

is_leap(y) == (y % 4 = 0) /\ ((y % 100 # 0) \/ (y % 400 = 0))

DAYS_IN_MONTH == <<31, 28, 31, 30, 31, 30, 31, 31, 30, 31, 30, 31>>

DAYS_BEFORE_MONTH == <<0, 31, 59, 90, 120, 151, 181, 212, 243, 273, 304, 334>>

days_in_month(y, m) == IF m = 2 /\ is_leap(y) THEN 29 ELSE DAYS_IN_MONTH[m]

days_before_year(year) ==
    LET y == year - 1
    IN  y * 365 + (y \div 4) - (y \div 100) + (y \div 400)

days_before_month(y, m) ==
    DAYS_BEFORE_MONTH[m] + (IF m > 2 /\ is_leap(y) THEN 1 ELSE 0)

\* date.toordinal(): 0001-01-01 is day 1
toordinal(d) == days_before_year(d.year) + days_before_month(d.year, d.month) + d.day

\* date.fromordinal(), the _ord2ymd algorithm of datetime
fromordinal(ord) ==
    LET n0   == ord - 1
        n400 == n0 \div 146097
        r400 == n0 % 146097
        n100 == r400 \div 36524
        r100 == r400 % 36524
        n4   == r100 \div 1461
        r4   == r100 % 1461
        n1   == r4 \div 365
        n    == r4 % 365
        year == n400 * 400 + 1 + n100 * 100 + n4 * 4 + n1
        leapyear == (n1 = 3) /\ ((n4 # 24) \/ (n100 = 3))
        leapadj(m) == IF m > 2 /\ leapyear THEN 1 ELSE 0
        month0 == (n + 50) \div 32
        prec0  == DAYS_BEFORE_MONTH[month0] + leapadj(month0)
        month  == IF prec0 > n THEN month0 - 1 ELSE month0
        prec   == IF prec0 > n
                  THEN prec0 - (DAYS_IN_MONTH[month]
                                + (IF month = 2 /\ leapyear THEN 1 ELSE 0))
                  ELSE prec0
    IN  IF n1 = 4 \/ n100 = 4
        THEN date(year - 1, 12, 31)
        ELSE date(year, month, n - prec + 1)

\* date + timedelta(days=k)
add_days(d, k) == fromordinal(toordinal(d) + k)

\* date - date, as .days
days_between(a, b) == toordinal(a) - toordinal(b)

\* date comparison
date_lt(a, b) == toordinal(a) < toordinal(b)

date_le(a, b) == toordinal(a) <= toordinal(b)

\* date.replace() raises ValueError exactly when the fields are no date
is_valid_date(y, m, d) == (m \in 1..12) /\ (d >= 1) /\ (d <= days_in_month(y, m))

----------------------------------------------------------------------------
(* dateutil.relativedelta(dt1, dt2).years                                  *)

\* dt + relativedelta(months=k): years/months split with the sign of k,
\* day clipped to the length of the target month
add_months(dt, k) ==
    LET s    == IF k < 0 THEN -1 ELSE 1
        a    == k * s
        yrs  == IF a > 11 THEN s * (a \div 12) ELSE 0
        mons == IF a > 11 THEN s * (a % 12) ELSE k
        y0   == dt.year + yrs
        m0   == dt.month + mons
        y    == IF m0 > 12 THEN y0 + 1 ELSE IF m0 < 1 THEN y0 - 1 ELSE y0
        m    == IF m0 > 12 THEN m0 - 12 ELSE IF m0 < 1 THEN m0 + 12 ELSE m0
        dim  == days_in_month(y, m)
    IN  date(y, m, IF dt.day < dim THEN dt.day ELSE dim)

RECURSIVE relativedelta_months(_, _, _)
relativedelta_months(dt1, dt2, months) ==
    LET dtm == add_months(dt2, months)
    IN  IF date_lt(dt1, dt2)
        THEN IF date_lt(dtm, dt1)
             THEN relativedelta_months(dt1, dt2, months + 1)
             ELSE months
        ELSE IF date_lt(dt1, dtm)
             THEN relativedelta_months(dt1, dt2, months - 1)
             ELSE months

relativedelta_years(dt1, dt2) ==
    LET k == relativedelta_months(dt1, dt2,
                 (dt1.year - dt2.year) * 12 + (dt1.month - dt2.month))
        s == IF k < 0 THEN -1 ELSE 1
        a == k * s
    IN  IF a > 11 THEN s * (a \div 12) ELSE 0

----------------------------------------------------------------------------
(* Date ranges of the two widgets.  MAX_BIRTH and MAX_ISSUE are            *)
(* date.today() of the script run, the same reading as `today`.            *)

MIN_BIRTH == date(1900, 1, 1)

MAX_BIRTH(now) == now

MIN_ISSUE == date(1900, 1, 1)

MAX_ISSUE(now) == now

\* the 90-day corridor after a threshold birthday
GRACE_DAYS == 90

----------------------------------------------------------------------------
(* safe_add_years                                                          *)

\* slip: the fallback for 29 February lands on 1 March
safe_add_years_march(d, years) ==
    IF is_valid_date(d.year + years, d.month, d.day)
    THEN date(d.year + years, d.month, d.day)
    ELSE date(d.year + years, 3, 1)

safe_add_years(d, years) ==
    IF is_valid_date(d.year + years, d.month, d.day)
    THEN date(d.year + years, d.month, d.day)
    ELSE date(d.year + years, 2, 28)

----------------------------------------------------------------------------
(* classify_passport_stage                                                 *)

STAGE_14 == "primary issue at 14"

STAGE_20 == "exchange at 20"

STAGE_45 == "exchange at 45"

STAGE_UNUSUAL == "unusual issue date (check the input)"

classify_passport_stage(b, i) ==
    LET d14 == safe_add_years(b, 14)
        d20 == safe_add_years(b, 20)
        d45 == safe_add_years(b, 45)
    IN  IF date_le(d14, i) /\ date_le(i, add_days(d20, GRACE_DAYS))
        THEN STAGE_14
        ELSE IF date_le(d20, i) /\ date_le(i, add_days(d45, GRACE_DAYS))
        THEN STAGE_20
        ELSE IF date_le(d45, i)
        THEN STAGE_45
        ELSE STAGE_UNUSUAL

----------------------------------------------------------------------------
(* compute_next_change                                                     *)

NEXT_20 == "first exchange at 20"

NEXT_45 == "second exchange at 45"

AFTER_45 == "after 45: no more age exchanges"

\* the status texts, by kind; `days` carries the number the text embeds
ST_NO_MORE == "no_more"

ST_OVERDUE == "overdue"

ST_DUE == "due"

ST_OK == "ok"

\* slip: the second branch copies the first branch's date
pick_next_change_copied(b, t) ==
    LET d20 == safe_add_years(b, 20)
        d45 == safe_add_years(b, 45)
    IN  IF date_lt(t, d20)
        THEN [stage |-> NEXT_20, next_change |-> Some(d20)]
        ELSE IF date_lt(t, d45)
        THEN [stage |-> NEXT_45, next_change |-> Some(d20)]
        ELSE [stage |-> AFTER_45, next_change |-> None]

\* slip: the threshold birthdays themselves still count as "before"
pick_next_change_inclusive(b, t) ==
    LET d20 == safe_add_years(b, 20)
        d45 == safe_add_years(b, 45)
    IN  IF date_le(t, d20)
        THEN [stage |-> NEXT_20, next_change |-> Some(d20)]
        ELSE IF date_le(t, d45)
        THEN [stage |-> NEXT_45, next_change |-> Some(d45)]
        ELSE [stage |-> AFTER_45, next_change |-> None]

\* lines 52-57: the stage and the date of the next exchange, from today
pick_next_change(b, t) ==
    LET d20 == safe_add_years(b, 20)
        d45 == safe_add_years(b, 45)
    IN  IF date_lt(t, d20)
        THEN [stage |-> NEXT_20, next_change |-> Some(d20)]
        ELSE IF date_lt(t, d45)
        THEN [stage |-> NEXT_45, next_change |-> Some(d45)]
        ELSE [stage |-> AFTER_45, next_change |-> None]

\* slip: the birthday counted as the first of the 90 days
compute_deadline_short(next_change) == add_days(next_change, GRACE_DAYS - 1)

\* line 66
compute_deadline(next_change) == add_days(next_change, GRACE_DAYS)

\* slip: the "ok" branch counts the days to the deadline
compute_status_to_deadline(t, next_change, deadline) ==
    IF date_lt(deadline, t)
    THEN [status |-> ST_OVERDUE, days |-> None]
    ELSE IF date_le(next_change, t)
    THEN [status |-> ST_DUE, days |-> Some(days_between(deadline, t))]
    ELSE [status |-> ST_OK, days |-> Some(days_between(deadline, t))]

\* lines 67-74
compute_status(t, next_change, deadline) ==
    IF date_lt(deadline, t)
    THEN [status |-> ST_OVERDUE, days |-> None]
    ELSE IF date_le(next_change, t)
    THEN [status |-> ST_DUE, days |-> Some(days_between(deadline, t))]
    ELSE [status |-> ST_OK, days |-> Some(days_between(next_change, t))]

compute_next_change(b, t) ==
    LET p == pick_next_change(b, t)
    IN  IF p.next_change = None
        THEN [stage |-> p.stage, next_change |-> None, deadline |-> None,
              status |-> ST_NO_MORE, days |-> None]
        ELSE LET next_change == p.next_change[1]
                 deadline    == compute_deadline(next_change)
                 s           == compute_status(t, next_change, deadline)
             IN  [stage |-> p.stage, next_change |-> Some(next_change),
                  deadline |-> Some(deadline),
                  status |-> s.status, days |-> s.days]

----------------------------------------------------------------------------
(* validate_inputs                                                         *)

ERR_BIRTH_FUTURE == "birth date cannot be in the future"

ERR_ISSUE_FUTURE == "issue date cannot be in the future"

ERR_ISSUE_BEFORE_BIRTH == "issue date cannot be before the birth date"

ERR_UNDER_14 == "no passport is issued to a person under 14"

ERR_ISSUE_BEFORE_14 == "a passport cannot be issued before the age of 14"

ERR_BIRTH_RANGE == "birth date must be within the allowed range"

ERR_ISSUE_RANGE == "issue date must be within the allowed range"

\* `if cond: errs.append(msg)`
append_if(errs, cond, msg) == IF cond THEN Append(errs, msg) ELSE errs

\* slip: the third check chained to the second with `elif`
validate_inputs_elif(b, i, t) ==
    LET e0 == <<>>
        e1 == append_if(e0, date_lt(t, b), ERR_BIRTH_FUTURE)
        e2 == append_if(e1, date_lt(t, i), ERR_ISSUE_FUTURE)
        e3 == append_if(e2, ~date_lt(t, i) /\ date_lt(i, b), ERR_ISSUE_BEFORE_BIRTH)
        e4 == append_if(e3, relativedelta_years(t, b) < 14, ERR_UNDER_14)
        d14 == safe_add_years(b, 14)
        e5 == append_if(e4, date_lt(i, d14), ERR_ISSUE_BEFORE_14)
        e6 == append_if(e5, ~(date_le(MIN_BIRTH, b) /\ date_le(b, MAX_BIRTH(t))),
                        ERR_BIRTH_RANGE)
        e7 == append_if(e6, ~(date_le(MIN_ISSUE, i) /\ date_le(i, MAX_ISSUE(t))),
                        ERR_ISSUE_RANGE)
    IN  e7

\* slip: the issue date is not compared with the 14th birthday
validate_inputs_no_d14(b, i, t) ==
    LET e0 == <<>>
        e1 == append_if(e0, date_lt(t, b), ERR_BIRTH_FUTURE)
        e2 == append_if(e1, date_lt(t, i), ERR_ISSUE_FUTURE)
        e3 == append_if(e2, date_lt(i, b), ERR_ISSUE_BEFORE_BIRTH)
        e4 == append_if(e3, relativedelta_years(t, b) < 14, ERR_UNDER_14)
        e6 == append_if(e4, ~(date_le(MIN_BIRTH, b) /\ date_le(b, MAX_BIRTH(t))),
                        ERR_BIRTH_RANGE)
        e7 == append_if(e6, ~(date_le(MIN_ISSUE, i) /\ date_le(i, MAX_ISSUE(t))),
                        ERR_ISSUE_RANGE)
    IN  e7

validate_inputs(b, i, t) ==
    LET e0 == <<>>
        e1 == append_if(e0, date_lt(t, b), ERR_BIRTH_FUTURE)
        e2 == append_if(e1, date_lt(t, i), ERR_ISSUE_FUTURE)
        e3 == append_if(e2, date_lt(i, b), ERR_ISSUE_BEFORE_BIRTH)
        e4 == append_if(e3, relativedelta_years(t, b) < 14, ERR_UNDER_14)
        d14 == safe_add_years(b, 14)
        e5 == append_if(e4, date_lt(i, d14), ERR_ISSUE_BEFORE_14)
        e6 == append_if(e5, ~(date_le(MIN_BIRTH, b) /\ date_le(b, MAX_BIRTH(t))),
                        ERR_BIRTH_RANGE)
        e7 == append_if(e6, ~(date_le(MIN_ISSUE, i) /\ date_le(i, MAX_ISSUE(t))),
                        ERR_ISSUE_RANGE)
    IN  e7

----------------------------------------------------------------------------
(* The button handler                                                      *)

WARN_20 == "issued before 20 but the age is 20+"

WARN_45 == "issued before 45 but the age is 45+"

\* slip: the results block is not guarded by `if not errors`
button_handler_unguarded(b, i, t) ==
    LET errors     == validate_inputs(b, i, t)
        age_years  == relativedelta_years(t, b)
        stage_info == classify_passport_stage(b, i)
        res        == compute_next_change(b, t)
        d20        == safe_add_years(b, 20)
        d45        == safe_add_years(b, 45)
        w20 == append_if(<<>>, date_lt(i, d20) /\ age_years >= 20, WARN_20)
        w45 == append_if(w20, date_lt(i, d45) /\ age_years >= 45, WARN_45)
    IN  [calls   |-> <<"validate_inputs", "classify_passport_stage",
                       "compute_next_change">>,
         errors  |-> errors,
         results |-> Some([age_years  |-> age_years,
                           stage_info |-> stage_info,
                           res        |-> res,
                           warnings   |-> w45])]

\* what one press of the button calls, in order, and what it puts on screen
button_handler(b, i, t) ==
    LET errors == validate_inputs(b, i, t)
    IN  IF errors # <<>>
        THEN [calls   |-> <<"validate_inputs">>,
              errors  |-> errors,
              results |-> None]
        ELSE LET age_years  == relativedelta_years(t, b)
                 stage_info == classify_passport_stage(b, i)
                 res        == compute_next_change(b, t)
                 d20        == safe_add_years(b, 20)
                 d45        == safe_add_years(b, 45)
                 w20 == append_if(<<>>, date_lt(i, d20) /\ age_years >= 20, WARN_20)
                 w45 == append_if(w20, date_lt(i, d45) /\ age_years >= 45, WARN_45)
             IN  [calls   |-> <<"validate_inputs", "classify_passport_stage",
                                "compute_next_change">>,
                  errors  |-> errors,
                  results |-> Some([age_years  |-> age_years,
                                    stage_info |-> stage_info,
                                    res        |-> res,
                                    warnings   |-> w45])]

----------------------------------------------------------------------------
(* Input grid: the threshold dates of three birthdays (an ordinary one, a  *)
(* 29 February and the first admissible day) and the days around them.     *)

\* days taken on either side of each anchor date
Slack == 1

around(S) == {add_days(a, k) : a \in S, k \in (0 - Slack)..Slack}

DEFAULT_BIRTH == date(1990, 1, 1)

DEFAULT_ISSUE == date(2010, 1, 1)

BirthAnchors ==
    {date(1990, 1, 1), date(2000, 2, 29), date(1980, 1, 1), date(1900, 1, 1)}

IssueAnchors ==
    {date(1900, 1, 1), date(1990, 1, 1), date(2000, 2, 29),
     date(2004, 1, 1), date(2010, 1, 1), date(2010, 4, 1),
     date(2035, 1, 1), date(2035, 4, 1),
     date(2014, 2, 28), date(2020, 2, 29), date(2020, 5, 29),
     date(2045, 2, 28), date(2045, 5, 29),
     date(1994, 1, 1), date(2000, 1, 1), date(2000, 3, 31), date(2025, 1, 1), date(2025, 4, 1)}

TodayAnchors ==
    {date(1990, 1, 1), date(2004, 1, 1), date(2010, 1, 1), date(2010, 4, 1),
     date(2035, 1, 1), date(2014, 2, 28), date(2020, 2, 29),
     date(2045, 2, 28), date(2025, 1, 1), date(2025, 6, 1),
     date(2026, 11, 1)}

AddAnchors ==
    {date(1996, 2, 29), date(2000, 2, 29), date(1999, 2, 28),
     date(2001, 2, 28), date(1990, 1, 1), date(1999, 12, 31)}

Births == around(BirthAnchors)

Issues == around(IssueAnchors)

Todays == around(TodayAnchors)

AddDates == around(AddAnchors)

AddYears == {0, 1, 3, 4, 14, 20, 45, 100}

----------------------------------------------------------------------------
(* State                                                                   *)

NoOut == [op |-> "none"]

Blank == [errors |-> <<>>, results |-> None]

\* The form: the two widgets hold their defaults, nothing is on screen
Init ==
    /\ today \in {t \in Todays : date_le(DEFAULT_ISSUE, t)}
    /\ birth = DEFAULT_BIRTH
    /\ issue = DEFAULT_ISSUE
    /\ out = NoOut
    /\ shown = Blank
    /\ calls = <<>>

\* st.date_input("birth"): a date within [MIN_BIRTH, MAX_BIRTH]; the script
\* reruns with the button not pressed
SetBirth(d) ==
    /\ date_le(MIN_BIRTH, d) /\ date_le(d, MAX_BIRTH(today))
    /\ birth' = d
    /\ shown' = Blank
    /\ calls' = <<>>
    /\ UNCHANGED <<issue, today, out>>

\* st.date_input("issue"): a date within [MIN_ISSUE, MAX_ISSUE]
SetIssue(d) ==
    /\ date_le(MIN_ISSUE, d) /\ date_le(d, MAX_ISSUE(today))
    /\ issue' = d
    /\ shown' = Blank
    /\ calls' = <<>>
    /\ UNCHANGED <<birth, today, out>>

\* st.button: the whole handler
Press ==
    LET h == button_handler(birth, issue, today)
    IN  /\ calls' = h.calls
        /\ shown' = [errors |-> h.errors, results |-> h.results]
        /\ UNCHANGED <<birth, issue, today, out>>

Next ==
    \/ \E d \in Births : SetBirth(d)
    \/ \E d \in Issues : SetIssue(d)
    \/ Press

Spec == Init /\ [][Next]_vars

----------------------------------------------------------------------------
(* The three rule functions applied to every input of the grid             *)

InitFn ==
    /\ birth \in Births
    /\ issue \in Issues
    /\ today \in Todays
    /\ out = NoOut
    /\ shown = Blank
    /\ calls = <<>>

DoClassify ==
    /\ out' = [op |-> "classify_passport_stage",
               value |-> classify_passport_stage(birth, issue)]
    /\ UNCHANGED <<birth, issue, today, shown, calls>>

DoCompute ==
    /\ out' = [op |-> "compute_next_change",
               value |-> compute_next_change(birth, today)]
    /\ UNCHANGED <<birth, issue, today, shown, calls>>

DoValidate ==
    /\ out' = [op |-> "validate_inputs",
               value |-> validate_inputs(birth, issue, today)]
    /\ UNCHANGED <<birth, issue, today, shown, calls>>

NextFn ==
    \/ DoClassify
    \/ DoCompute
    \/ DoValidate

SpecFn == InitFn /\ [][NextFn]_vars

----------------------------------------------------------------------------
(* safe_add_years applied to every date and number of years of the grid    *)

InitAdd ==
    /\ birth \in AddDates
    /\ issue = DEFAULT_ISSUE
    /\ today = date(2026, 11, 1)
    /\ out = NoOut
    /\ shown = Blank
    /\ calls = <<>>

DoSafeAddYears(n) ==
    /\ out' = [op |-> "safe_add_years", years |-> n,
               value |-> safe_add_years(birth, n)]
    /\ UNCHANGED <<birth, issue, today, shown, calls>>

NextAdd == \E n \in AddYears : DoSafeAddYears(n)

SpecAdd == InitAdd /\ [][NextAdd]_vars

----------------------------------------------------------------------------
(* Properties                                                              *)

\* C1: classify_passport_stage checks stage 45 first (issue >= d45), then
\* stage 20 (d20 <= issue <= d45 + 90 days), then stage 14
\* (d14 <= issue <= d20 + 90 days), else the unusual label.
C1_ClassifierOrder ==
    out.op = "classify_passport_stage" =>
        LET d14 == safe_add_years(birth, 14)
            d20 == safe_add_years(birth, 20)
            d45 == safe_add_years(birth, 45)
        IN  out.value =
              IF toordinal(issue) >= toordinal(d45)
              THEN STAGE_45
              ELSE IF toordinal(d20) <= toordinal(issue)
                      /\ toordinal(issue) <= toordinal(d45) + 90
              THEN STAGE_20
              ELSE IF toordinal(d14) <= toordinal(issue)
                      /\ toordinal(issue) <= toordinal(d20) + 90
              THEN STAGE_14
              ELSE STAGE_UNUSUAL

\* C2: the renewal result follows the stage of the current passport: stage
\* 45 gives the terminal result without dates, stage 20 gives next_change =
\* birth + 45 years, stage 14 gives next_change = birth + 20 years.
C2_StageDrivesRenewal ==
    shown.results # None =>
        LET r == shown.results[1]
        IN  /\ r.stage_info = STAGE_45 =>
                  /\ r.res.next_change = None
                  /\ r.res.deadline = None
                  /\ r.res.status = ST_NO_MORE
            /\ r.stage_info = STAGE_20 =>
                  r.res.next_change = Some(safe_add_years(birth, 45))
            /\ r.stage_info = STAGE_14 =>
                  r.res.next_change = Some(safe_add_years(birth, 20))

\* C3: when a next_change is returned, the status is overdue exactly when
\* today > deadline, due exactly when next_change <= today <= deadline (days
\* = deadline - today), ok exactly when today < next_change (days =
\* next_change - today); the days are never negative.
C3_StatusFromDates ==
    (out.op = "compute_next_change" /\ out.value.next_change # None) =>
        LET v  == out.value
            nc == toordinal(v.next_change[1])
            dl == toordinal(v.deadline[1])
            t  == toordinal(today)
        IN  /\ v.status \in {ST_OVERDUE, ST_DUE, ST_OK}
            /\ (v.status = ST_OVERDUE) <=> (t > dl)
            /\ (v.status = ST_DUE) <=> (nc <= t /\ t <= dl)
            /\ (v.status = ST_OK) <=> (t < nc)
            /\ (v.status = ST_DUE) => (v.days = Some(dl - t))
            /\ (v.status = ST_OK) => (v.days = Some(nc - t))
            /\ (v.days # None) => (v.days[1] >= 0)

C3_Witness ==
    /\ out.op = "compute_next_change"
    /\ out.value.next_change # None
    /\ out.value.status = ST_OK
    /\ out.value.days = Some(1)
    /\ toordinal(today) + 1 = toordinal(out.value.next_change[1])

\* C4 as stated: birth 1990-01-01, issue 2010-01-01, today 2010-01-02 show
\* stage 20, next_change 2010-01-01, deadline 2010-04-01 and status due.
C4_ExampleAsStated ==
    (/\ birth = date(1990, 1, 1)
     /\ issue = date(2010, 1, 1)
     /\ today = date(2010, 1, 2)
     /\ shown.results # None) =>
        LET r == shown.results[1]
        IN  /\ r.stage_info = STAGE_20
            /\ r.res.next_change = Some(date(2010, 1, 1))
            /\ r.res.deadline = Some(date(2010, 4, 1))
            /\ r.res.status = ST_DUE

\* C4 amended: for birth 1990-01-01, issue 2010-01-01, today 2010-01-02 the
\* calculator returns next_change 2035-01-01 (birth + 45 years), deadline
\* 2035-04-01 and status ok with 9130 days left.
C4_Example ==
    (/\ birth = date(1990, 1, 1)
     /\ issue = date(2010, 1, 1)
     /\ today = date(2010, 1, 2)
     /\ calls # <<>>) =>
        /\ shown.results # None
        /\ LET res == shown.results[1].res
           IN  /\ res.next_change = Some(date(2035, 1, 1))
               /\ res.deadline = Some(date(2035, 4, 1))
               /\ res.status = ST_OK
               /\ res.days = Some(9130)

C4_Witness ==
    /\ birth = date(1990, 1, 1)
    /\ issue = date(2010, 1, 1)
    /\ today = date(2010, 1, 2)
    /\ shown.results # None
    /\ shown.results[1].res.stage = NEXT_45

\* C5: next_change and deadline are both absent or both present, and when
\* present deadline = next_change + 90 days.
C5_DeadlineIs90Days ==
    out.op = "compute_next_change" =>
        LET v == out.value
        IN  /\ (v.next_change = None) <=> (v.deadline = None)
            /\ (v.next_change # None) =>
                  toordinal(v.deadline[1]) = toordinal(v.next_change[1]) + 90

C5_Witness ==
    /\ out.op = "compute_next_change"
    /\ out.value.next_change = Some(date(2020, 2, 29))
    /\ out.value.deadline = Some(date(2020, 5, 29))

\* C6: each of the seven messages is in the list returned by validate_inputs
\* exactly when its own condition holds, whatever the other checks found,
\* and the messages come in the fixed order of the checks; issue < birth
\* always yields the issue-before-birth message.
C6_AllChecksIndependent ==
    out.op = "validate_inputs" =>
        LET b == toordinal(birth)
            i == toordinal(issue)
            t == toordinal(today)
            lo == toordinal(date(1900, 1, 1))
            msgs == <<ERR_BIRTH_FUTURE, ERR_ISSUE_FUTURE, ERR_ISSUE_BEFORE_BIRTH,
                      ERR_UNDER_14, ERR_ISSUE_BEFORE_14, ERR_BIRTH_RANGE,
                      ERR_ISSUE_RANGE>>
            conds == <<b > t, i > t, i < b,
                       relativedelta_years(today, birth) < 14,
                       i < toordinal(safe_add_years(birth, 14)),
                       ~(lo <= b /\ b <= t),
                       ~(lo <= i /\ i <= t)>>
            errs == out.value
            pos(m) == CHOOSE k \in 1..7 : msgs[k] = m
        IN  /\ \A j \in 1..Len(errs) : \E k \in 1..7 : errs[j] = msgs[k]
            /\ \A k \in 1..7 : (\E j \in 1..Len(errs) : errs[j] = msgs[k]) <=> conds[k]
            /\ \A j1, j2 \in 1..Len(errs) : j1 < j2 => pos(errs[j1]) < pos(errs[j2])
            /\ (i < b) => (\E j \in 1..Len(errs) : errs[j] = ERR_ISSUE_BEFORE_BIRTH)

C6_Witness ==
    /\ out.op = "validate_inputs"
    /\ toordinal(today) < toordinal(issue)
    /\ toordinal(issue) < toordinal(birth)
    /\ out.value = <<ERR_BIRTH_FUTURE, ERR_ISSUE_FUTURE, ERR_ISSUE_BEFORE_BIRTH,
                     ERR_UNDER_14, ERR_ISSUE_BEFORE_14, ERR_BIRTH_RANGE,
                     ERR_ISSUE_RANGE>>

\* C7: safe_add_years(d, n) is the date of year d.year + n with the month
\* and day of d, except that 29 February becomes 28 February when the target
\* year is not a leap year; 28 February is never moved to 29 February.
C7_SafeAddYears ==
    out.op = "safe_add_years" =>
        LET d == birth
            r == out.value
            y == d.year + out.years
            leap == (y % 4 = 0) /\ ((y % 100 # 0) \/ (y % 400 = 0))
        IN  /\ r.year = y
            /\ IF d.month = 2 /\ d.day = 29 /\ ~leap
               THEN r.month = 2 /\ r.day = 28
               ELSE r.month = d.month /\ r.day = d.day
            /\ (d.month = 2 /\ d.day = 28) => (r.month = 2 /\ r.day = 28)
            /\ (d = date(1996, 2, 29) /\ out.years = 4) => r = date(2000, 2, 29)
            /\ (d = date(2000, 2, 29) /\ out.years = 1) => r = date(2001, 2, 28)
            /\ (d = date(1999, 2, 28) /\ out.years = 1) => r = date(2000, 2, 28)
            /\ (d = date(2001, 2, 28) /\ out.years = 3) => r = date(2004, 2, 28)

C7_Witness ==
    /\ out.op = "safe_add_years"
    /\ birth = date(2000, 2, 29)
    /\ out.years = 1
    /\ out.value = date(2001, 2, 28)

\* C8: a press of the button runs the validator first; the classifier and
\* the calculator run, and results are shown, only when the validator
\* returned no error; otherwise every error is shown and nothing else.
C8_ValidatorGatesResults ==
    calls # <<>> =>
        /\ calls[1] = "validate_inputs"
        /\ shown.errors = validate_inputs(birth, issue, today)
        /\ (shown.errors # <<>>) =>
              /\ calls = <<"validate_inputs">>
              /\ shown.results = None
        /\ (shown.errors = <<>>) =>
              /\ calls = <<"validate_inputs", "classify_passport_stage",
                           "compute_next_change">>
              /\ shown.results # None
              /\ shown.results[1].stage_info = classify_passport_stage(birth, issue)
              /\ shown.results[1].res = compute_next_change(birth, today)

C8_Witness ==
    /\ calls = <<"validate_inputs">>
    /\ Len(shown.errors) >= 2
    /\ shown.results = None

\* C9: compute_next_change picks next_change from today alone: birth + 20
\* years when today < birth + 20 years, birth + 45 years when birth + 20
\* years <= today < birth + 45 years, and the terminal result exactly when
\* today >= birth + 45 years; today is strictly before any returned
\* next_change, and the due and overdue statuses never occur.
C9_TodayAlone ==
    out.op = "compute_next_change" =>
        LET v   == out.value
            t   == toordinal(today)
            d20 == safe_add_years(birth, 20)
            d45 == safe_add_years(birth, 45)
        IN  /\ (t < toordinal(d20)) => v.next_change = Some(d20)
            /\ (toordinal(d20) <= t /\ t < toordinal(d45)) => v.next_change = Some(d45)
            /\ (v.next_change = None /\ v.deadline = None /\ v.status = ST_NO_MORE)
                  <=> (t >= toordinal(d45))
            /\ (v.next_change # None) => (t < toordinal(v.next_change[1]))
            /\ v.status \notin {ST_DUE, ST_OVERDUE}

C9_Witness ==
    /\ out.op = "compute_next_change"
    /\ today = safe_add_years(birth, 20)
    /\ out.value.next_change = Some(safe_add_years(birth, 45))
    /\ out.value.status = ST_OK

\* C10: when validate_inputs returns no errors the classifier never returns
\* the unusual-issue-date label: the stage shown is 14, 20 or 45.
C10_NoUnusualAfterValidation ==
    shown.results # None =>
        /\ shown.results[1].stage_info # STAGE_UNUSUAL
        /\ shown.results[1].stage_info \in {STAGE_14, STAGE_20, STAGE_45}

C10_Witness ==
    /\ shown.results # None
    /\ shown.errors = <<>>
    /\ issue = safe_add_years(birth, 14)
    /\ shown.results[1].stage_info = STAGE_14

====
